---- MODULE Spec2Model ----
(***************************************************************************)
(* A model of rag_evals: the evaluation contract (ContextEvaluation.grade  *)
(* and agrade), the chunk-reference validator of the chunk-graded response *)
(* schemas, the statement validators of the faithfulness schema, the score *)
(* extraction of EvaluationResult and the batch helper batch_evaluate.     *)
(*                                                                         *)
(* Scores are held as integers in units of 1/Scale: a float score f of     *)
(* ChunkScore is the integer f * Scale, a bool score of ChunkBinaryScore   *)
(* is the Python int it is (False = 0, True = 1) and weighs Scale units in *)
(* a sum.  An average is the fraction [num, den], never rounded.           *)
(***************************************************************************)
EXTENDS Integers, Sequences, FiniteSets

\* ------------------------------------------------------------- bounds

\* Longest context (number of chunks) of a grade call.
MaxCtx == 3

\* Longest graded_chunks list the judge returns.
MaxChunks == 3

\* Longest statements list of the custom metric's result.
MaxRefs == 2

\* Longest context of a faithfulness call.
MaxFaithCtx == 2

\* Longest statements list of a faithfulness result.
MaxStmts == 1

\* Longest supporting_chunk_ids list of a statement.
MaxIds == 2

\* Longest examples list of a contract.
MaxExamples == 2

\* Largest number of agrade calls issued concurrently on one contract.
MaxCalls == 2

\* Longest context of one of the concurrent agrade calls.
MaxCallCtx == 2

\* Longest context of a model_validate call a caller makes itself.
MaxDirectCtx == 2

\* Longest graded_chunks list handed to such a call.
MaxDirectChunks == 2

\* Longest statements list handed to such a call.
MaxDirectStmts == 3

\* Longest data list of a batch_evaluate call.
MaxItems == 5

\* Largest batch_size of a batch_evaluate call.
MaxBatch == 3

\* Latest value of datetime.now(), in ticks after the import of utils.py.
MaxClock == 2

\* Most BatchEvaluationResults objects made one after the other.
MaxBatches == 3

\* Longest results list of a batch that is filtered or summarised.
MaxResults == 2

\* Number of items the metrics of a combined table were evaluated on.
MaxTableItems == 2

\* Granularity of a float score: the scores are 0/Scale .. Scale/Scale.
Scale == 2

VARIABLES
    pc,             \* position of the one grade call: idle, awaiting, returned, raised
    mode,           \* "grade" (synchronous) or "agrade" (awaits the judge)
    contract,       \* the ContextEvaluation instance: prompt, examples, response_model, chunk_template
    context,        \* the caller's context: a sequence of chunk texts
    question,       \* the caller's question
    answer,         \* the caller's answer: a Str, or None
    request,        \* what grade handed to client.create
    calls,          \* number of client.create invocations made by the call
    raw,            \* the judge's structured output before validation
    create_outcome, \* what client.create returned or raised
    grade_outcome,  \* what grade returned or raised to its caller
    log,            \* logger records written by the validators
    probe,          \* what the caller then read from the returned result
    b_pc,           \* position of the one batch_evaluate call: idle, gathering, sleeping, done, raised
    data,           \* len(data): the items are 0 .. data - 1
    batch_size,     \* the batch_size argument
    b_i,            \* the loop variable i: index of the first item of the wave
    inflight,       \* items whose evaluation call is started and not finished
    starts,         \* per item, how often evaluation_func was started for it
    task_outcome,   \* per item, how its evaluation call ended
    finished,       \* the items of the wave whose call has ended, in the order they ended
    all_results,    \* the list all_results; a result is named by its item
    error_log,      \* items reported by logger.error, in order
    sleeps,         \* number of asyncio.sleep(delay_seconds) calls made
    stats,          \* the caller's evaluate_summary_statistics of the returned list
    agrade_calls,   \* per caller, its agrade call on the shared contract: inputs, position, outcome
    issued,         \* the callers whose agrade call was started, in the order of the starts
    direct,         \* a model_validate call made by a caller itself: model, data, context, outcome
    direct_probe,   \* what that caller did next: validated the data reordered, or read a property
    clock,          \* what datetime.now() returns, in ticks
    timestamp_default, \* the default of BatchEvaluationResults.timestamp, set when the class was defined
    batches,        \* the BatchEvaluationResults objects made so far, in the order they were made
    reading         \* what a caller last read from a batch or from a dictionary of batches

gradeVars == <<pc, mode, contract, context, question, answer, request, calls, raw,
               create_outcome, grade_outcome, log, probe>>

batchVars == <<b_pc, data, batch_size, b_i, inflight, starts, task_outcome, finished,
               all_results, error_log, sleeps, stats>>

poolVars == <<agrade_calls, issued>>

directVars == <<direct, direct_probe>>

utilVars == <<clock, timestamp_default, batches, reading>>

vars == <<gradeVars, batchVars, poolVars, directVars, utilVars>>

\* ------------------------------------------------------------ schemas

None == [kind |-> "None"]

\* A str value; an optional str is a Str or None.
Str(text) == [kind |-> "str", text |-> text]

\* A list value of a field that may also be None.
List(items) == [kind |-> "list", items |-> items]

ChunkScore(id, s) == [id_chunk |-> id, score |-> s, cls |-> "ChunkScore"]

ChunkBinaryScore(id, b) == [id_chunk |-> id, score |-> b, cls |-> "ChunkBinaryScore"]

\* The weight of an entry's score in a Python sum, in units of 1/Scale.
ScoreUnits(chunk) ==
    IF chunk.cls = "ChunkBinaryScore" THEN chunk.score * Scale ELSE chunk.score

ChunkGradedModels == {"ChunkGraded", "ChunkGradedBinary"}

\* ------------------------------------------------- errors and outcomes

NoError == [type |-> "none", reason |-> "", ids |-> {}]

ValueError(reason, ids) == [type |-> "ValueError", reason |-> reason, ids |-> ids]

AssertionError(reason) == [type |-> "AssertionError", reason |-> reason, ids |-> {}]

\* A transport or parsing failure of the judge capability.
JudgeError == [type |-> "JudgeError", reason |-> "transport", ids |-> {}]

Returned(v) == [kind |-> "value", value |-> v, error |-> NoError]

Raised(e) == [kind |-> "error", value |-> None, error |-> e]

Pending == [kind |-> "pending", value |-> None, error |-> NoError]

\* A float as a fraction.
Float(num, den) == [num |-> num, den |-> den]

\* ------------------------------------------------- validation context

\* An enumeration that counts from one.
IndexContextFromOne(ctx) == [i \in 1..Len(ctx) |-> [id |-> i, chunk |-> ctx[i]]]

\* The context [{"id": i, "chunk": chunk} for i, chunk in enumerate(context)].
IndexContext(ctx) == [i \in 1..Len(ctx) |-> [id |-> i - 1, chunk |-> ctx[i]]]

\* pydantic's info.context of a validation started by grade or agrade: the
\* dict handed to client.create as context=.
GradeInfo(qn, ans, ctx) ==
    [kind |-> "dict",
     keys |-> {"question", "answer", "context"},
     question |-> qn,
     answer |-> ans,
     context |-> [is_list |-> TRUE, items |-> IndexContext(ctx)]]

\* ---------------------------------------------- chunk-reference validator

\* list.sort(key=lambda x: x.id_chunk) is stable: an entry goes behind every
\* entry already placed whose id_chunk is not larger.
RECURSIVE InsertByIdChunk(_, _)
InsertByIdChunk(sorted, x) ==
    IF sorted = <<>> THEN <<x>>
    ELSE IF Head(sorted).id_chunk <= x.id_chunk
         THEN <<Head(sorted)>> \o InsertByIdChunk(Tail(sorted), x)
         ELSE <<x>> \o sorted

RECURSIVE SortByIdChunk(_)
SortByIdChunk(chunks) ==
    IF chunks = <<>> THEN <<>>
    ELSE InsertByIdChunk(SortByIdChunk(SubSeq(chunks, 1, Len(chunks) - 1)),
                         chunks[Len(chunks)])

\* A first pass that keeps only the first entry of an id.
RECURSIVE FirstPassUnique(_, _)
FirstPassUnique(chunks, valid_ids) ==
    IF chunks = <<>> THEN <<>>
    ELSE LET front == SubSeq(chunks, 1, Len(chunks) - 1)
             last == chunks[Len(chunks)]
         IN IF /\ last.id_chunk \in valid_ids
               /\ last.id_chunk \notin {front[i].id_chunk : i \in 1..Len(front)}
            THEN Append(FirstPassUnique(front, valid_ids), last)
            ELSE FirstPassUnique(front, valid_ids)

\* The first pass: the entries whose id_chunk is a valid id, in the judge's
\* order.  Every entry is an instance of the schema's entry class and so has
\* an id_chunk: the hasattr branch of the loop is never taken.
RECURSIVE FirstPass(_, _)
FirstPass(chunks, valid_ids) ==
    IF chunks = <<>> THEN <<>>
    ELSE IF Head(chunks).id_chunk \in valid_ids
         THEN <<Head(chunks)>> \o FirstPass(Tail(chunks), valid_ids)
         ELSE FirstPass(Tail(chunks), valid_ids)

\* A first pass that stops collecting at the first offending id.
InvalidIdsFirstOnly(chunks, valid_ids) ==
    LET bad == {i \in 1..Len(chunks) : chunks[i].id_chunk \notin valid_ids}
    IN IF bad = {} THEN {}
       ELSE {chunks[CHOOSE i \in bad : \A j \in bad : i <= j].id_chunk}

\* The ids of the first pass that are not valid ids.
InvalidIds(chunks, valid_ids) ==
    {chunks[i].id_chunk : i \in 1..Len(chunks)} \ valid_ids

\* A second pass that adds an entry for every id of the context.
IsMissingAlways(chunk_id, processed_ids) == TRUE

\* Whether the second pass adds an entry for chunk_id.
IsMissing(chunk_id, processed_ids) == chunk_id \notin processed_ids

\* The second pass: the ids of valid_ids (read in ascending order) that no
\* entry carries, from id lo on.
RECURSIVE MissingFrom(_, _, _)
MissingFrom(lo, n, processed_ids) ==
    IF lo >= n THEN <<>>
    ELSE IF IsMissing(lo, processed_ids)
         THEN <<lo>> \o MissingFrom(lo + 1, n, processed_ids)
         ELSE MissingFrom(lo + 1, n, processed_ids)

\* The entry the second pass makes for a missing id, whatever the schema.
Synthesized(chunk_id) == ChunkScore(chunk_id, 0)

\* Whether the validator takes its early return.
EarlyReturn(chunks) == chunks = <<>>

\* ContextValidationMixin.validate_chunks_against_context(chunks, info):
\* [ok, value, error, warnings].
validate_chunks_against_context(chunks, info) ==
    IF EarlyReturn(chunks)
    THEN [ok |-> TRUE, value |-> <<>>, error |-> NoError, warnings |-> <<>>]
    ELSE IF \/ info.kind # "dict"
            \/ info.keys = {}
            \/ "context" \notin info.keys
    THEN [ok |-> FALSE, value |-> <<>>, warnings |-> <<>>,
          error |-> ValueError("no validation context", {})]
    ELSE IF ~info.context.is_list
    THEN [ok |-> FALSE, value |-> <<>>, warnings |-> <<>>,
          error |-> ValueError("context is not a list", {})]
    ELSE
      LET n == Len(info.context.items)
          valid_ids == 0..(n - 1)
          invalid_ids == InvalidIds(chunks, valid_ids)
          first == FirstPass(chunks, valid_ids)
          processed_ids == {first[i].id_chunk : i \in 1..Len(first)}
          missing_chunk_ids_added == MissingFrom(0, n, processed_ids)
          added == [i \in 1..Len(missing_chunk_ids_added) |->
                      Synthesized(missing_chunk_ids_added[i])]
      IN IF invalid_ids # {}
         THEN [ok |-> FALSE, value |-> <<>>, warnings |-> <<>>,
               error |-> ValueError("chunk ids not in context", invalid_ids)]
         ELSE [ok |-> TRUE,
               value |-> SortByIdChunk(first \o added),
               error |-> NoError,
               warnings |-> IF missing_chunk_ids_added # <<>>
                            THEN <<[missing |-> missing_chunk_ids_added]>>
                            ELSE <<>>]

\* ChunkGraded.avg_score and ChunkGradedBinary.avg_score:
\* sum(chunk.score for chunk in graded_chunks) / len(graded_chunks).
RECURSIVE SumUnits(_)
SumUnits(chunks) ==
    IF chunks = <<>> THEN 0 ELSE ScoreUnits(Head(chunks)) + SumUnits(Tail(chunks))

avg_score(result) ==
    IF Len(result.graded_chunks) = 0
    THEN [raised |-> "ZeroDivisionError", num |-> 0, den |-> 1]
    ELSE [raised |-> "",
          num |-> SumUnits(result.graded_chunks),
          den |-> Scale * Len(result.graded_chunks)]

\* ------------------------------------------------- faithfulness schema

\* supporting_chunk_ids: None, or a list of ids.
NoIds == [is_none |-> TRUE, ids |-> <<>>]

IdList(ids) == [is_none |-> FALSE, ids |-> ids]

\* A membership test that only looks at the upper end of the id range.
IdNotFoundAbove(chunk_id, chunk_ids) == chunk_id >= Cardinality(chunk_ids)

\* Whether ensure_list_of_ints takes chunk_id for an id of the context.
IdNotFound(chunk_id, chunk_ids) == chunk_id \notin chunk_ids

\* StatementEvaluation.ensure_list_of_ints(v, info), the mode='before'
\* validator of supporting_chunk_ids: [ok, error].
ensure_list_of_ints(v, info) ==
    IF v.is_none \/ v.ids = <<>>
    THEN [ok |-> TRUE, error |-> NoError]
    ELSE IF info.kind = "None"
    THEN [ok |-> FALSE, error |-> AssertionError("No context found")]
    ELSE
      LET context_chunks_data ==
              IF "context" \in info.keys THEN info.context.items ELSE <<>>
          chunk_ids == {context_chunks_data[i].id : i \in 1..Len(context_chunks_data)}
          offending == {v.ids[i] : i \in {j \in 1..Len(v.ids) :
                                              IdNotFound(v.ids[j], chunk_ids)}}
      IN IF Cardinality(chunk_ids) = 0
         THEN [ok |-> FALSE, error |-> AssertionError("No context chunks found")]
         ELSE IF offending # {}
         THEN [ok |-> FALSE,
               error |-> ValueError("Chunk ID not found in context", offending)]
         ELSE [ok |-> TRUE, error |-> NoError]

\* A model validator that only looks for an absent list, not an empty one.
UnsupportedNoneOnly(self) ==
    self.is_supported /\ self.supporting_chunk_ids.is_none

\* Whether the model validator finds a supported statement without support.
Unsupported(self) ==
    self.is_supported
      /\ (self.supporting_chunk_ids.is_none \/ self.supporting_chunk_ids.ids = <<>>)

\* StatementEvaluation.validate_supporting_chunks, the mode='after' model
\* validator: [ok, error].
validate_supporting_chunks(self) ==
    IF Unsupported(self)
    THEN [ok |-> FALSE,
          error |-> ValueError("A supported statement must have at least one supporting chunk ID", {})]
    ELSE [ok |-> TRUE, error |-> NoError]

\* Validation of one StatementEvaluation: the field validator, and the model
\* validator only when the fields are valid.
StatementEvaluation_validate(st, info) ==
    LET field == ensure_list_of_ints(st.supporting_chunk_ids, info)
    IN IF field.ok THEN validate_supporting_chunks(st) ELSE field

\* FaithfulnessResult.model_validate: every statement is validated and the
\* errors of all of them make up the ValidationError.
FaithfulnessResult_validate(output, info) ==
    LET checked == [i \in 1..Len(output.statements) |->
                        StatementEvaluation_validate(output.statements[i], info)]
        failed == {i \in 1..Len(checked) : ~checked[i].ok}
    IN IF failed = {}
       THEN Returned(output)
       ELSE Raised([type |-> "ValidationError",
                    reason |-> {checked[i].error.reason : i \in failed},
                    ids |-> UNION {checked[i].error.ids : i \in failed}])

\* A score that counts the statements that cite a chunk, supported or not.
overall_faithfulness_scoreByCitation(result) ==
    IF result.statements = <<>> THEN Float(0, 1)
    ELSE Float(Len(SelectSeq(result.statements,
                             LAMBDA st : ~st.supporting_chunk_ids.is_none)),
               Len(result.statements))

\* FaithfulnessResult.overall_faithfulness_score.
overall_faithfulness_score(result) ==
    IF result.statements = <<>> THEN Float(0, 1)
    ELSE Float(Len(SelectSeq(result.statements, LAMBDA st : st.is_supported)),
               Len(result.statements))

\* ------------------------------------------------------ response schemas

\* The statements of the custom metric's result carry a citation flag and an
\* optional quality; NoQuality stands for reference_quality = None.
NoQuality == -1

\* The attributes hasattr finds on a result object: its fields and properties.
Attributes(result) ==
    CASE result.cls \in ChunkGradedModels -> {"graded_chunks", "avg_score"}
      [] result.cls = "RelevanceScore" ->
            {"overall_score", "topical_match", "completeness", "conciseness",
             "reasoning"}
      [] result.cls = "ReferenceAccuracyResult" ->
            {"statements", "score", "reference_coverage"}
      [] OTHER -> {"statements", "overall_faithfulness_score"}

\* ReferenceAccuracyResult.score of the custom metric example.
RECURSIVE QualityUnits(_)
QualityUnits(items) ==
    IF items = <<>> THEN 0
    ELSE (IF Head(items).reference_quality = NoQuality
          THEN 0 ELSE Head(items).reference_quality) + QualityUnits(Tail(items))

ReferenceAccuracyResult_score(result) ==
    LET statements_with_refs ==
            SelectSeq(result.statements, LAMBDA st : st.has_reference)
    IN IF statements_with_refs = <<>> THEN Float(0, 1)
       ELSE Float(QualityUnits(statements_with_refs),
                  Scale * Len(statements_with_refs))

\* A score that is worked out again from the three dimensions of a relevance
\* result: [value, warned].
EvaluationResult_scoreRederived(result) ==
    IF "score" \in Attributes(result)
    THEN [value |-> ReferenceAccuracyResult_score(result), warned |-> FALSE]
    ELSE IF "overall_score" \in Attributes(result)
    THEN [value |-> Float(result.topical_match + result.completeness
                              + result.conciseness, 3 * Scale),
          warned |-> FALSE]
    ELSE [value |-> Float(0, 1), warned |-> TRUE]

\* EvaluationResult.score: [value, warned].
EvaluationResult_score(result) ==
    IF "score" \in Attributes(result)
    THEN [value |-> ReferenceAccuracyResult_score(result), warned |-> FALSE]
    ELSE IF "overall_score" \in Attributes(result)
    THEN [value |-> Float(result.overall_score, Scale), warned |-> FALSE]
    ELSE [value |-> Float(0, 1), warned |-> TRUE]

\* response_model.model_validate(output, context=info): the declared fields
\* hold well-typed values, so what decides is the schema's own validators.
model_validate(model, output, info) ==
    IF model \in ChunkGradedModels
    THEN LET v == validate_chunks_against_context(output.graded_chunks, info)
         IN [outcome |-> IF v.ok
                         THEN Returned([cls |-> model, graded_chunks |-> v.value])
                         ELSE Raised(v.error),
             warnings |-> v.warnings]
    ELSE IF model = "FaithfulnessResult"
    THEN [outcome |-> FaithfulnessResult_validate(output, info), warnings |-> <<>>]
    ELSE [outcome |-> Returned(output), warnings |-> <<>>]

\* ------------------------------------------------- the evaluation contract

ResponseModels == ChunkGradedModels \cup {"RelevanceScore", "ReferenceAccuracyResult"}

\* A ContextEvaluation instance constructed with examples; chunk_template is
\* the class default.
ContextEvaluationWithExamples(prompt, examples, response_model) ==
    [prompt |-> prompt,
     examples |-> examples,
     response_model |-> response_model,
     chunk_template |-> "chunk_template"]

\* A ContextEvaluation instance constructed without examples, as the metrics
\* of the package are.
ContextEvaluation(prompt, response_model) ==
    ContextEvaluationWithExamples(prompt, None, response_model)

\* The sequences over S of length at most n.
SeqUpTo(S, n) == UNION {[1..k -> S] : k \in 0..n}

\* The structured outputs the judge can produce for a schema and a context
\* of n chunks: every field well typed, chunk ids from -1 to n.
JudgeOutputs(model, n) ==
    CASE model = "ChunkGraded" ->
            {[cls |-> model, graded_chunks |-> g] :
                g \in SeqUpTo({ChunkScore(id, sc) : id \in (-1)..n, sc \in 0..Scale},
                              MaxChunks)}
      [] model = "ChunkGradedBinary" ->
            {[cls |-> model, graded_chunks |-> g] :
                g \in SeqUpTo({ChunkBinaryScore(id, b) : id \in (-1)..n, b \in 0..1},
                              MaxChunks)}
      [] model = "RelevanceScore" ->
            {[cls |-> model, overall_score |-> o, topical_match |-> t,
              completeness |-> c, conciseness |-> k] :
                o \in 0..Scale, t \in 0..Scale, c \in 0..Scale, k \in 0..Scale}
      [] model = "FaithfulnessResult" ->
            {[cls |-> model, statements |-> st] :
                st \in SeqUpTo([is_supported : BOOLEAN,
                                supporting_chunk_ids :
                                    {NoIds} \cup {IdList(ids) :
                                        ids \in SeqUpTo((-1)..n, MaxIds)}],
                               MaxStmts)}
      [] OTHER ->
            {[cls |-> model, statements |-> st] :
                st \in SeqUpTo([has_reference : BOOLEAN,
                                reference_quality : {NoQuality} \cup 0..Scale],
                               MaxRefs)}

\* The keyword arguments grade hands to client.create.
CreateArguments(self, qn, ans, ctx) ==
    [messages |-> <<[role |-> "system", content |-> self.prompt],
                    [role |-> "user", content |-> self.chunk_template]>>,
     response_model |-> self.response_model,
     context |-> GradeInfo(qn, ans, ctx)]

\* An agrade that leaves the answer out of what it hands to the judge.
AwaitedCreateArgumentsNoAnswer(self, qn, ans, ctx) ==
    CreateArguments(self, qn, None, ctx)

\* The keyword arguments agrade hands to the awaited client.create.
AwaitedCreateArguments(self, qn, ans, ctx) ==
    [messages |-> <<[role |-> "system", content |-> self.prompt],
                    [role |-> "user", content |-> self.chunk_template]>>,
     response_model |-> self.response_model,
     context |-> [kind |-> "dict",
                  keys |-> {"question", "answer", "context"},
                  question |-> qn,
                  answer |-> ans,
                  context |-> [is_list |-> TRUE, items |-> IndexContext(ctx)]]]

\* What a name of the template stands for when the template is rendered with
\* the variables of `info`: the value of the key, or Jinja's Undefined when
\* the variables hold no such key.
Undefined == [kind |-> "Undefined"]

Resolve(info, name) == IF name \in info.keys THEN info[name] ELSE Undefined

\* {% for x in v %}: the items of a list; Undefined iterates as empty.
Iterate(v) == IF v.kind = "list" THEN v.items ELSE <<>>

\* The payload the judge client renders from the user message (the class
\* default chunk_template) with the variables of the call's context=:
\* the examples block and its entries, the question, the answer block, and
\* one chunk block per entry of the indexed context.
render(template, info) ==
    LET examples == Resolve(info, "examples")
        the_answer == Resolve(info, "answer")
        chunks == Resolve(info, "context")
    IN [template |-> template,
        examples_block |-> examples # None,
        examples |-> IF examples # None THEN Iterate(examples) ELSE <<>>,
        question |-> info.question,
        answer_block |-> the_answer # None,
        answer |-> IF the_answer # None THEN the_answer ELSE None,
        chunks |-> [i \in 1..Len(chunks.items) |->
                       [id |-> chunks.items[i].id, chunk |-> chunks.items[i].chunk]]]

\* A grade that catches the failure of client.create and raises its own error.
GradeOutcomeWrapped(outcome) ==
    IF outcome.kind = "error"
    THEN Raised([type |-> "RuntimeError", reason |-> "grade failed", ids |-> {}])
    ELSE outcome

\* What grade does with the outcome of client.create: return the response, or
\* let the exception pass.
GradeOutcome(outcome) == outcome

\* What agrade does with the outcome of the awaited client.create.
AgradeOutcome(outcome) == outcome

NoProbe == [op |-> "none"]

\* Before the call: the caller holds a contract, a context, a question and an
\* answer.
StartWith(contracts, contexts, answers) ==
    /\ pc = "idle"
    /\ mode = "none"
    /\ contract \in contracts
    /\ context \in contexts
    /\ question = "question"
    /\ answer \in answers
    /\ request = None
    /\ calls = 0
    /\ raw = None
    /\ create_outcome = Pending
    /\ grade_outcome = Pending
    /\ log = <<>>
    /\ probe = NoProbe

\* Before the call: a contract of one of `models`, a context of at most n chunks.
Start(models, n) ==
    StartWith({ContextEvaluation(<<"prompt", m>>, m) : m \in models},
              {[i \in 1..k |-> "chunk"] : k \in 0..n},
              {Str("answer")})

\* Before batch_evaluate is called with n items and batch_size bs.
BatchStart(n, bs) ==
    /\ b_pc = "idle"
    /\ data = n
    /\ batch_size = bs
    /\ b_i = 0
    /\ inflight = {}
    /\ starts = [k \in 0..(n - 1) |-> 0]
    /\ task_outcome = [k \in 0..(n - 1) |-> "pending"]
    /\ finished = <<>>
    /\ all_results = <<>>
    /\ error_log = <<>>
    /\ sleeps = 0
    /\ stats = None

\* An agrade call that was not started.
NoCall ==
    [pc |-> "idle", question |-> "", answer |-> None, context |-> <<>>,
     request |-> None, raw |-> None, outcome |-> Pending]

\* Before any of the concurrent agrade calls is started, and before any
\* caller validates data itself.
PoolStart ==
    /\ agrade_calls = [c \in 1..MaxCalls |-> NoCall]
    /\ issued = <<>>
    /\ direct = None
    /\ direct_probe = NoProbe

\* The module rag_evals.utils has been imported, which defined the class
\* BatchEvaluationResults and evaluated the default of its timestamp field;
\* no batch has been made.
UtilStart ==
    /\ clock = 0
    /\ timestamp_default = 0
    /\ batches = <<>>
    /\ reading = None

Init == Start(ResponseModels, MaxCtx) /\ BatchStart(0, 1) /\ PoolStart /\ UtilStart

\* A call of the Faithfulness contract.
InitFaith == Start({"FaithfulnessResult"}, MaxFaithCtx) /\ BatchStart(0, 1) /\ PoolStart /\ UtilStart

\* The caller starts grade or agrade, which calls client.create with
\* `arguments`.
Call(m, arguments) ==
    /\ pc = "idle"
    /\ mode' = m
    /\ request' = arguments
    /\ calls' = calls + 1
    /\ pc' = "awaiting"
    /\ UNCHANGED <<contract, context, question, answer, raw, create_outcome, grade_outcome, log, probe>>
    /\ UNCHANGED <<batchVars, poolVars, directVars, utilVars>>

\* grade(question, answer, context, client) on the contract.
grade == Call("grade", CreateArguments(contract, question, answer, context))

\* agrade(question, answer, context, client) on the contract.
agrade == Call("agrade", AwaitedCreateArguments(contract, question, answer, context))

\* client.create ends with `outcome`, and with it the grade call.
Complete(output, done) ==
    /\ raw' = output
    /\ create_outcome' = done.outcome
    /\ log' = log \o done.warnings
    /\ LET passed == IF mode = "agrade" THEN AgradeOutcome(done.outcome)
                                         ELSE GradeOutcome(done.outcome)
       IN /\ grade_outcome' = passed
          /\ pc' = IF passed.kind = "value" THEN "returned" ELSE "raised"
    /\ UNCHANGED <<mode, contract, context, question, answer, request, calls, probe>>
    /\ UNCHANGED <<batchVars, poolVars, directVars, utilVars>>

\* The judge fails: no parseable response.
JudgeFails ==
    /\ pc = "awaiting"
    /\ Complete(None, [outcome |-> Raised(JudgeError), warnings |-> <<>>])

\* The judge answers and its output is validated against the schema.
JudgeAnswers ==
    /\ pc = "awaiting"
    /\ \E output \in JudgeOutputs(request.response_model, Len(context)) :
          Complete(output, model_validate(request.response_model, output, request.context))

\* The caller reads avg_score of a returned chunk-graded result.
ReadAvgScore ==
    /\ pc = "returned"
    /\ probe = NoProbe
    /\ grade_outcome.value.cls \in ChunkGradedModels
    /\ probe' = [op |-> "avg_score", result |-> avg_score(grade_outcome.value)]
    /\ UNCHANGED <<pc, mode, contract, context, question, answer, request, calls, raw,
                   create_outcome, grade_outcome, log>>
    /\ UNCHANGED <<batchVars, poolVars, directVars, utilVars>>

\* The caller wraps the returned result in an EvaluationResult and reads score.
ReadScore ==
    /\ pc = "returned"
    /\ probe = NoProbe
    /\ probe' = [op |-> "score", result |-> EvaluationResult_score(grade_outcome.value)]
    /\ UNCHANGED <<pc, mode, contract, context, question, answer, request, calls, raw,
                   create_outcome, grade_outcome, log>>
    /\ UNCHANGED <<batchVars, poolVars, directVars, utilVars>>

\* The caller validates the returned graded_chunks again, same context.
Revalidate ==
    /\ pc = "returned"
    /\ probe = NoProbe
    /\ grade_outcome.value.cls \in ChunkGradedModels
    /\ probe' = [op |-> "revalidate",
                 result |-> validate_chunks_against_context(
                                grade_outcome.value.graded_chunks, request.context)]
    /\ UNCHANGED <<pc, mode, contract, context, question, answer, request, calls, raw,
                   create_outcome, grade_outcome, log>>
    /\ UNCHANGED <<batchVars, poolVars, directVars, utilVars>>

\* The caller reads overall_faithfulness_score of a returned faithfulness result.
ReadFaithfulnessScore ==
    /\ pc = "returned"
    /\ probe = NoProbe
    /\ grade_outcome.value.cls = "FaithfulnessResult"
    /\ probe' = [op |-> "overall_faithfulness_score",
                 result |-> overall_faithfulness_score(grade_outcome.value)]
    /\ UNCHANGED <<pc, mode, contract, context, question, answer, request, calls, raw,
                   create_outcome, grade_outcome, log>>
    /\ UNCHANGED <<batchVars, poolVars, directVars, utilVars>>

Next ==
    \/ grade
    \/ agrade
    \/ JudgeFails
    \/ JudgeAnswers
    \/ ReadAvgScore
    \/ ReadScore
    \/ Revalidate

Spec == Init /\ [][Next]_vars

NextFaith ==
    \/ grade
    \/ agrade
    \/ JudgeFails
    \/ JudgeAnswers
    \/ ReadScore
    \/ ReadFaithfulnessScore

SpecFaith == InitFaith /\ [][NextFaith]_vars

\* The texts a chunk of the caller's context can have.
ChunkTexts == {"a", "b"}

\* The examples a contract can be constructed with: None, or a list.
ExamplesChoices ==
    {None} \cup {List(ex) : ex \in SeqUpTo({"example 1", "example 2"}, MaxExamples)}

\* A call of a contract constructed with or without examples, for a question
\* with or without an answer, against a context of distinct texts.
InitRequest ==
    /\ StartWith({ContextEvaluationWithExamples(<<"prompt", "RelevanceScore">>,
                                                ex, "RelevanceScore")
                      : ex \in ExamplesChoices},
                 SeqUpTo(ChunkTexts, MaxCtx),
                 {None, Str("answer")})
    /\ BatchStart(0, 1)
    /\ PoolStart
    /\ UtilStart

NextRequest ==
    \/ grade
    \/ agrade
    \/ JudgeFails
    \/ JudgeAnswers

SpecRequest == InitRequest /\ [][NextRequest]_vars

\* ------------------------------------------------------ batch_evaluate

\* How an evaluation call can end: with a result object, with the value None,
\* by raising an Exception (transport error, validation failure), or by
\* raising CancelledError, which is a BaseException and no Exception.
TaskOutcomes == {"result", "none", "exception", "cancelled"}

\* The outcomes gather hands back as exception objects with return_exceptions.
Raising == {"exception", "cancelled"}

\* A gather that lets the first exception of a task through.
ReturnExceptionsOff == FALSE

\* The return_exceptions argument batch_evaluate gives asyncio.gather.
ReturnExceptions == TRUE

\* A slice that reaches one item into the next wave.
BatchInclusive(i) == {k \in 0..(data - 1) : i <= k /\ k <= i + batch_size}

\* The items data[i : i + batch_size].
Batch(i) == {k \in 0..(data - 1) : i <= k /\ k < i + batch_size}

\* The ascending sequence of the items of a set.
RECURSIVE Ascending(_)
Ascending(items) ==
    IF items = {} THEN <<>>
    ELSE LET least == CHOOSE k \in items : \A m \in items : k <= m
         IN <<least>> \o Ascending(items \ {least})

\* One pass of the loop body up to the await of gather: the evaluation
\* function is called for every item of the wave.
StartWave(i) ==
    /\ b_i' = i
    /\ inflight' = Batch(i)
    /\ starts' = [k \in DOMAIN starts |-> IF k \in Batch(i) THEN starts[k] + 1 ELSE starts[k]]
    /\ finished' = <<>>
    /\ b_pc' = "gathering"

\* batch_evaluate is called: an empty data list returns at once, otherwise the
\* first wave starts.
BatchCall ==
    /\ b_pc = "idle"
    /\ IF data = 0
       THEN /\ b_pc' = "done"
            /\ UNCHANGED <<b_i, inflight, starts, finished>>
       ELSE StartWave(0)
    /\ UNCHANGED <<data, batch_size, task_outcome, all_results, error_log, sleeps, stats>>
    /\ UNCHANGED <<gradeVars, poolVars, directVars, utilVars>>

\* One evaluation call of the wave ends; with return_exceptions off its
\* exception would end gather and batch_evaluate at once.
TaskCompletes ==
    /\ b_pc = "gathering"
    /\ \E k \in inflight, o \in TaskOutcomes :
          /\ task_outcome' = [task_outcome EXCEPT ![k] = o]
          /\ inflight' = inflight \ {k}
          /\ finished' = Append(finished, k)
          /\ b_pc' = IF o \in Raising /\ ~ReturnExceptions THEN "raised" ELSE b_pc
    /\ UNCHANGED <<data, batch_size, b_i, starts, all_results, error_log, sleeps, stats>>
    /\ UNCHANGED <<gradeVars, poolVars, directVars, utilVars>>

\* A gather that returns as soon as one call of the wave has ended.
GatherDoneOnFirst == inflight # Batch(b_i)

\* Whether the awaited gather returns: every call of the wave has ended.
GatherDone == inflight = {}

\* A gather that hands the results back in the order the calls ended.
GatherResultsAsCompleted == finished

\* The list gather returns: the wave's items in the order of the awaitables.
GatherResults == Ascending(Batch(b_i))

\* A loop that sleeps after every wave that filled the batch.
MoreItemsInclusive(i) == i + batch_size <= data

\* Whether the loop sleeps after the wave that began at item i.
MoreItems(i) == i + batch_size < data

\* gather returns the wave's results in item order: instances of Exception
\* are logged and replaced by None, None is dropped, the rest is appended;
\* then the loop sleeps when items are left, and returns otherwise.
GatherReturns ==
    /\ b_pc = "gathering"
    /\ GatherDone
    /\ LET batch_results == GatherResults
           failed == SelectSeq(batch_results, LAMBDA k : task_outcome[k] = "exception")
           kept == SelectSeq(batch_results,
                             LAMBDA k : task_outcome[k] \in {"result", "cancelled"})
       IN /\ error_log' = error_log \o failed
          /\ all_results' = all_results \o kept
    /\ IF MoreItems(b_i)
       THEN /\ sleeps' = sleeps + 1
            /\ b_pc' = "sleeping"
       ELSE /\ sleeps' = sleeps
            /\ b_pc' = "done"
    /\ UNCHANGED <<data, batch_size, b_i, inflight, starts, task_outcome, finished, stats>>
    /\ UNCHANGED <<gradeVars, poolVars, directVars, utilVars>>

\* The sleep between two waves ends and the next wave starts.
SleepEnds ==
    /\ b_pc = "sleeping"
    /\ StartWave(b_i + batch_size)
    /\ UNCHANGED <<data, batch_size, task_outcome, all_results, error_log, sleeps, stats>>
    /\ UNCHANGED <<gradeVars, poolVars, directVars, utilVars>>

\* evaluate_summary_statistics of a batch: the count, and the results whose
\* scores the statistics are computed from.
evaluate_summary_statistics(results) ==
    [count |-> Len(results), over |-> results]

\* The caller puts the returned list in a BatchEvaluationResults and asks for
\* its summary statistics.
Summarize ==
    /\ b_pc = "done"
    /\ stats = None
    /\ stats' = evaluate_summary_statistics(all_results)
    /\ UNCHANGED <<b_pc, data, batch_size, b_i, inflight, starts, task_outcome,
                   finished, all_results, error_log, sleeps>>
    /\ UNCHANGED <<gradeVars, poolVars, directVars, utilVars>>

InitBatch ==
    /\ Start({"ChunkGradedBinary"}, 0)
    /\ \E n \in 0..MaxItems, bs \in 1..MaxBatch : BatchStart(n, bs)
    /\ PoolStart
    /\ UtilStart

NextBatch ==
    \/ BatchCall
    \/ TaskCompletes
    \/ GatherReturns
    \/ SleepEnds
    \/ Summarize

SpecBatch == InitBatch /\ [][NextBatch]_vars

\* The event loop runs batch_evaluate whenever it can go on: when it is
\* called, when its gather is done, when its sleep is over; and every
\* evaluation call that was started ends at some time.
FairBatch ==
    /\ WF_vars(BatchCall)
    /\ WF_vars(TaskCompletes)
    /\ WF_vars(GatherReturns)
    /\ WF_vars(SleepEnds)

SpecBatchLive == InitBatch /\ [][NextBatch]_vars /\ FairBatch

\* ------------------------------------------ concurrent agrade calls

\* The outputs of a judge that grades every chunk it was shown at most once,
\* in the order of the chunks, or omits it.
OrderlyJudgeOutputs(model, n) ==
    {[cls |-> model,
      graded_chunks |-> [i \in 1..Cardinality(S) |->
                            ChunkBinaryScore(Ascending(S)[i], b[Ascending(S)[i]])]]
        : S \in SUBSET (0..(n - 1)), b \in [0..(n - 1) -> {0, 1}]}

\* A validation that reads the context of the agrade call started last,
\* as if the call had left it on the shared contract.
ValidationStateOfLatest(c) == agrade_calls[issued[Len(issued)]].request.context

\* The validation state of the judge invocation of caller c's agrade call:
\* the context= dict that very call built and handed to client.create.
ValidationState(c) == agrade_calls[c].request.context

\* Caller c starts agrade on the shared contract with its own question and
\* context, and is suspended in the awaited client.create.  The callers are
\* numbered in the order in which they start.
agradeStarts(c) ==
    /\ agrade_calls[c].pc = "idle"
    /\ c = Len(issued) + 1
    /\ \E k \in 0..MaxCallCtx :
          LET ctx == [i \in 1..k |-> <<"chunk", c, i>>]
              qn == <<"question", c>>
          IN agrade_calls' = [agrade_calls EXCEPT ![c] =
                 [pc |-> "awaiting", question |-> qn, answer |-> Str("answer"),
                  context |-> ctx,
                  request |-> AwaitedCreateArguments(contract, qn, Str("answer"), ctx),
                  raw |-> None, outcome |-> Pending]]
    /\ issued' = Append(issued, c)
    /\ UNCHANGED <<gradeVars, batchVars, directVars, utilVars>>

\* The awaited client.create of caller c ends, and with it c's agrade call.
agradeResumes(c, output, done) ==
    /\ agrade_calls[c].pc = "awaiting"
    /\ LET passed == AgradeOutcome(done.outcome)
       IN agrade_calls' = [agrade_calls EXCEPT ![c] =
              [@ EXCEPT !.raw = output,
                        !.outcome = passed,
                        !.pc = IF passed.kind = "value" THEN "returned" ELSE "raised"]]
    /\ log' = log \o done.warnings
    /\ UNCHANGED <<pc, mode, contract, context, question, answer, request, calls, raw,
                   create_outcome, grade_outcome, probe>>
    /\ UNCHANGED <<issued, batchVars, directVars, utilVars>>

\* The judge's response to caller c arrives and is validated.
ResponseArrives ==
    \E c \in 1..MaxCalls :
        /\ agrade_calls[c].pc = "awaiting"
        /\ \E output \in OrderlyJudgeOutputs(agrade_calls[c].request.response_model,
                                              Len(agrade_calls[c].context)) :
              agradeResumes(c, output,
                            model_validate(agrade_calls[c].request.response_model,
                                           output, ValidationState(c)))

\* The judge invocation of caller c fails.
InvocationFails ==
    \E c \in 1..MaxCalls :
        agradeResumes(c, None, [outcome |-> Raised(JudgeError), warnings |-> <<>>])

agradeIssued == \E c \in 1..MaxCalls : agradeStarts(c)

InitPool == Start({"ChunkGradedBinary"}, 0) /\ BatchStart(0, 1) /\ PoolStart /\ UtilStart

NextPool ==
    \/ agradeIssued
    \/ ResponseArrives
    \/ InvocationFails

SpecPool == InitPool /\ [][NextPool]_vars

\* ------------------------------------------ model_validate by a caller

\* The validation contexts a caller can hand to model_validate: a dict with
\* the key 'context' and a list of at most n items, as the tests build it,
\* and the unusable ones: None, an empty dict, a value that is no dict, a
\* dict without the key 'context', a dict whose 'context' is no list.
UsableInfos(n) ==
    {[kind |-> "dict", keys |-> {"context"},
      context |-> [is_list |-> TRUE, items |-> IndexContext([i \in 1..k |-> "chunk"])]]
        : k \in 0..n}

UnusableInfos ==
    {None,
     [kind |-> "dict", keys |-> {}],
     [kind |-> "list"],
     [kind |-> "dict", keys |-> {"question"}],
     [kind |-> "dict", keys |-> {"context"},
      context |-> [is_list |-> FALSE, items |-> <<>>]]}

\* The data a caller can hand to model_validate for a schema: graded_chunks
\* lists with ids from -1 to n, or statements lists.
DirectData(model, n) ==
    CASE model = "ChunkGraded" ->
            {[cls |-> model, graded_chunks |-> g] :
                g \in SeqUpTo({ChunkScore(id, sc) : id \in (-1)..n, sc \in 0..Scale},
                              MaxDirectChunks)}
      [] model = "ChunkGradedBinary" ->
            {[cls |-> model, graded_chunks |-> g] :
                g \in SeqUpTo({ChunkBinaryScore(id, b) : id \in (-1)..n, b \in 0..1},
                              MaxDirectChunks)}
      [] OTHER ->
            {[cls |-> model, statements |-> st] :
                st \in SeqUpTo({[is_supported |-> TRUE, supporting_chunk_ids |-> IdList(<<0>>)],
                                [is_supported |-> FALSE, supporting_chunk_ids |-> IdList(<<0>>)],
                                [is_supported |-> FALSE, supporting_chunk_ids |-> NoIds]},
                               MaxDirectStmts)}

\* The sequences that hold the entries of chunks in another order.
Reorderings(chunks) ==
    {[i \in 1..Len(chunks) |-> chunks[p[i]]] :
        p \in {q \in [1..Len(chunks) -> 1..Len(chunks)] :
                  \A i, j \in 1..Len(chunks) : q[i] = q[j] => i = j}}

\* The validation contexts tried for a schema: every one for the chunk-graded
\* schemas, the usable ones for the statements schema.
DirectInfos(model) ==
    IF model \in ChunkGradedModels
    THEN UsableInfos(MaxDirectCtx) \cup UnusableInfos
    ELSE UsableInfos(MaxDirectCtx)

\* A caller validates data against a schema with a validation context of its
\* own making: response_model.model_validate(data, context=info).
DirectValidate ==
    /\ direct = None
    /\ \E model \in ChunkGradedModels \cup {"FaithfulnessResult"} :
          \E info \in DirectInfos(model), obj \in DirectData(model, MaxDirectCtx) :
              LET done == model_validate(model, obj, info)
              IN /\ direct' = [model |-> model, data |-> obj, info |-> info,
                               outcome |-> done.outcome]
                 /\ log' = log \o done.warnings
    /\ UNCHANGED <<pc, mode, contract, context, question, answer, request, calls, raw,
                   create_outcome, grade_outcome, probe>>
    /\ UNCHANGED <<direct_probe, batchVars, poolVars, utilVars>>

\* The caller validates the same graded entries in another order against
\* the same validation context.
DirectValidateReordered ==
    /\ direct # None
    /\ direct_probe = NoProbe
    /\ direct.model \in ChunkGradedModels
    /\ \E reordered \in Reorderings(direct.data.graded_chunks) :
          LET done == model_validate(direct.model,
                                     [cls |-> direct.model, graded_chunks |-> reordered],
                                     direct.info)
          IN /\ direct_probe' = [op |-> "reordered", input |-> reordered,
                                 outcome |-> done.outcome]
             /\ log' = log \o done.warnings
    /\ UNCHANGED <<pc, mode, contract, context, question, answer, request, calls, raw,
                   create_outcome, grade_outcome, probe>>
    /\ UNCHANGED <<direct, batchVars, poolVars, utilVars>>

\* The caller reads overall_faithfulness_score of the validated result.
DirectReadFaithfulnessScore ==
    /\ direct # None
    /\ direct_probe = NoProbe
    /\ direct.model = "FaithfulnessResult"
    /\ direct.outcome.kind = "value"
    /\ direct_probe' = [op |-> "overall_faithfulness_score",
                        result |-> overall_faithfulness_score(direct.outcome.value)]
    /\ UNCHANGED <<gradeVars, direct, batchVars, poolVars, utilVars>>

InitValidate == Start({"ChunkGradedBinary"}, 0) /\ BatchStart(0, 1) /\ PoolStart /\ UtilStart

NextValidate ==
    \/ DirectValidate
    \/ DirectValidateReordered
    \/ DirectReadFaithfulnessScore

SpecValidate == InitValidate /\ [][NextValidate]_vars

\* ------------------------------------------ batches of results (utils.py)

\* A dict as the set of its <<key, value>> items.
EmptyDict == {}

HasKey(dict, key) == \E item \in dict : item[1] = key

\* An optional dict: None, or a dict.
Dict(items) == [kind |-> "dict", items |-> items]

\* An optional float: None, or a float.
NoFloat == [is_none |-> TRUE, value |-> Float(0, 1)]

SomeFloat(units) == [is_none |-> FALSE, value |-> Float(units, Scale)]

\* a < b for two floats.
FloatLess(a, b) == a.num * b.den < b.num * a.den

\* A relevance result with the given overall_score.
RelevanceResult(o) ==
    [cls |-> "RelevanceScore", overall_score |-> o, topical_match |-> o,
     completeness |-> o, conciseness |-> o]

\* EvaluationResult(question=..., result=..., metadata=...); the question
\* names the evaluated item.  The fields answer and context play no part in
\* the utilities and are left out.
EvaluationResult(item, result, metadata) ==
    [question |-> item, result |-> result, metadata |-> metadata]

\* r.score of an EvaluationResult r.
ResultScore(r) == EvaluationResult_score(r.result).value

\* BatchEvaluationResults(results=..., evaluation_type=..., timestamp=...).
\* made_at and made_by are not fields of the object: they say when and by
\* which operation the object was made.
BatchEvaluationResults(results, evaluation_type, timestamp, made_by) ==
    [results |-> results, evaluation_type |-> evaluation_type,
     timestamp |-> timestamp, made_at |-> clock, made_by |-> made_by]

ByConstructor == [op |-> "BatchEvaluationResults"]

\* BatchEvaluationResults.scores.
BatchEvaluationResults_scores(batch) ==
    [i \in 1..Len(batch.results) |-> ResultScore(batch.results[i])]

\* sum of a list of floats that all have the denominator Scale.
RECURSIVE SumScores(_)
SumScores(scores) ==
    IF scores = <<>> THEN 0 ELSE Head(scores).num + SumScores(Tail(scores))

\* BatchEvaluationResults.average_score.
BatchEvaluationResults_average_score(batch) ==
    IF batch.results = <<>> THEN Float(0, 1)
    ELSE Float(SumScores(BatchEvaluationResults_scores(batch)),
               Scale * Len(batch.results))

\* A list of units sorted ascending.
RECURSIVE InsertUnits(_, _)
InsertUnits(u, sorted) ==
    IF sorted = <<>> THEN <<u>>
    ELSE IF u <= Head(sorted) THEN <<u>> \o sorted
    ELSE <<Head(sorted)>> \o InsertUnits(u, Tail(sorted))

RECURSIVE SortUnits(_)
SortUnits(units) ==
    IF units = <<>> THEN <<>> ELSE InsertUnits(Head(units), SortUnits(Tail(units)))

RECURSIVE SumSquares(_)
SumSquares(units) ==
    IF units = <<>> THEN 0 ELSE Head(units) * Head(units) + SumSquares(Tail(units))

\* A statistic that is a float, or NaN.
Number(num, den) == [nan |-> FALSE, value |-> Float(num, den)]

NaN == [nan |-> TRUE, value |-> Float(0, 1)]

\* The dictionary evaluate_summary_statistics returns for a batch.  The
\* standard deviation is the sample one of pandas and is held by its square:
\* NaN for one score.
ScoreStatistics(batch) ==
    LET scores == BatchEvaluationResults_scores(batch)
        units == [i \in 1..Len(scores) |-> scores[i].num]
        sorted == SortUnits(units)
        n == Len(scores)
        total == SumScores(scores)
    IN IF scores = <<>>
       THEN [count |-> 0, mean |-> Number(0, 1), median |-> Number(0, 1),
             min |-> Number(0, 1), max |-> Number(0, 1), std_squared |-> Number(0, 1)]
       ELSE [count |-> n,
             mean |-> Number(total, Scale * n),
             median |-> IF n % 2 = 1
                        THEN Number(sorted[(n + 1) \div 2], Scale)
                        ELSE Number(sorted[n \div 2] + sorted[n \div 2 + 1], 2 * Scale),
             min |-> Number(sorted[1], Scale),
             max |-> Number(sorted[n], Scale),
             std_squared |-> IF n = 1 THEN NaN
                             ELSE Number(n * SumSquares(units) - total * total,
                                         n * (n - 1) * Scale * Scale)]

\* A filter that keeps a result only when its score is above min_score.
filter_resultsStrictMin(batch_results, min_score, max_score, metadata_filters) ==
    LET keep(result) ==
            /\ ~(~min_score.is_none /\ ~FloatLess(min_score.value, ResultScore(result)))
            /\ ~(~max_score.is_none /\ FloatLess(max_score.value, ResultScore(result)))
            /\ (metadata_filters # None /\ metadata_filters.items # EmptyDict) =>
                   ~\E item \in metadata_filters.items :
                        \/ ~HasKey(result.metadata, item[1])
                        \/ item \notin result.metadata
    IN SelectSeq(batch_results.results, keep)

\* The list filtered_results that filter_results builds in its loop.
filter_results(batch_results, min_score, max_score, metadata_filters) ==
    LET keep(result) ==
            /\ ~(~min_score.is_none /\ FloatLess(ResultScore(result), min_score.value))
            /\ ~(~max_score.is_none /\ FloatLess(max_score.value, ResultScore(result)))
            /\ (metadata_filters # None /\ metadata_filters.items # EmptyDict) =>
                   ~\E item \in metadata_filters.items :
                        \/ ~HasKey(result.metadata, item[1])
                        \/ item \notin result.metadata
    IN SelectSeq(batch_results.results, keep)

\* A read of batch.average_score that hands out the value of the read before
\* it when there was one.
ReadAverageStored(batch, earlier) ==
    IF earlier # None /\ earlier.op = "average_score"
    THEN earlier.value
    ELSE BatchEvaluationResults_average_score(batch)

\* A read of batch.average_score after the reading `earlier`: a property,
\* worked out from batch.results at each read.
ReadAverage(batch, earlier) == BatchEvaluationResults_average_score(batch)

\* combined_df[score_col] = df["score"]: the cell of row i, aligned by the
\* row index of the two frames; NaN when df has no row i.
AlignByIndex(results, i) ==
    IF i <= Len(results.results)
    THEN [nan |-> FALSE, value |-> ResultScore(results.results[i])]
    ELSE NaN

\* combine_metrics(results_dict): results_dict is the sequence of the
\* <<metric_name, batch>> items of the dictionary, in insertion order.  A row
\* is its question and its score columns, a column "<name>_score" is named
\* by <name>; the metadata and result_ columns of the first frame are left
\* out.
combine_metrics(results_dict) ==
    IF results_dict = <<>> THEN <<>>
    ELSE LET first_metric == results_dict[1][2]
             added == {k \in 1..Len(results_dict) :
                          results_dict[k][1] # first_metric.evaluation_type}
             columns == {first_metric.evaluation_type}
                            \cup {results_dict[k][1] : k \in added}
         IN [i \in 1..Len(first_metric.results) |->
                [question |-> first_metric.results[i].question,
                 scores |->
                    [name \in columns |->
                        IF \E k \in added : results_dict[k][1] = name
                        THEN LET k == CHOOSE k \in added : results_dict[k][1] = name
                             IN AlignByIndex(results_dict[k][2], i)
                        ELSE [nan |-> FALSE,
                              value |-> ResultScore(first_metric.results[i])]]]]

\* datetime.now() moves on.
Tick ==
    /\ clock < MaxClock
    /\ clock' = clock + 1
    /\ UNCHANGED <<timestamp_default, batches, reading>>
    /\ UNCHANGED <<gradeVars, batchVars, poolVars, directVars>>

MetricNames == <<"faithfulness", "precision", "relevance">>

\* The metadata an evaluated item can have.
Metadatas ==
    {EmptyDict, {<<"category", "science">>}, {<<"category", "history">>}}

\* The lists of at most n results for the items 1, 2, ...: any score, any
\* metadata.
ResultLists(n) ==
    UNION {{[i \in 1..k |-> EvaluationResult(i, RelevanceResult(c[i][1]), c[i][2])] :
                c \in [1..k -> (0..Scale) \X Metadatas]} : k \in 0..n}

\* A caller makes a batch as the example does: results and evaluation_type
\* are passed, timestamp is not.  The batch has no result, or one.
Construct ==
    /\ Len(batches) < MaxBatches
    /\ \E results \in {<<>>, <<EvaluationResult(1, RelevanceResult(Scale),
                                                 {<<"category", "history">>})>>} :
          batches' = Append(batches,
                            BatchEvaluationResults(results, "faithfulness",
                                                   timestamp_default, ByConstructor))
    /\ UNCHANGED <<clock, timestamp_default, reading>>
    /\ UNCHANGED <<gradeVars, batchVars, poolVars, directVars>>

\* The arguments of a filter_results call.
FilterArguments(min_scores, max_scores, filters) ==
    [min_score : min_scores, max_score : max_scores, metadata_filters : filters]

Thresholds == {NoFloat} \cup {SomeFloat(u) : u \in 0..Scale}

AllFilterArguments ==
    FilterArguments(Thresholds, Thresholds,
                    {None, Dict(EmptyDict), Dict({<<"category", "science">>}),
                     Dict({<<"source", "manual">>})})

\* filter_results(batches[i], **arguments) returns a new batch.
FilterCall(i, arguments) ==
    /\ batches' =
          Append(batches,
                 BatchEvaluationResults(
                     filter_results(batches[i], arguments.min_score,
                                    arguments.max_score, arguments.metadata_filters),
                     batches[i].evaluation_type,
                     batches[i].timestamp,
                     [op |-> "filter_results", source |-> i, input |-> batches[i],
                      arguments |-> arguments]))
    /\ UNCHANGED <<clock, timestamp_default, reading>>
    /\ UNCHANGED <<gradeVars, batchVars, poolVars, directVars>>

\* A caller filters one of the batches made so far, as the example does, by
\* metadata only, or by nothing.
FilterByCategory ==
    /\ Len(batches) < MaxBatches
    /\ \E i \in 1..Len(batches),
          arguments \in FilterArguments({NoFloat}, {NoFloat},
                                        {None, Dict({<<"category", "science">>})}) :
          FilterCall(i, arguments)

InitTimestamps ==
    /\ Start({"ChunkGradedBinary"}, 0) /\ BatchStart(0, 1) /\ PoolStart
    /\ UtilStart

NextTimestamps ==
    \/ Tick
    \/ Construct
    \/ FilterByCategory

SpecTimestamps == InitTimestamps /\ [][NextTimestamps]_vars

\* A caller filters the one batch there is, with any arguments.
Filter ==
    /\ Len(batches) = 1
    /\ \E arguments \in AllFilterArguments : FilterCall(1, arguments)

\* One batch of any results was made with the default timestamp or with
\* timestamp=datetime.now(), one tick after the class was defined.
InitFilter ==
    /\ Start({"ChunkGradedBinary"}, 0) /\ BatchStart(0, 1) /\ PoolStart
    /\ clock = 1
    /\ timestamp_default = 0
    /\ \E results \in ResultLists(MaxResults), timestamp \in {0, 1} :
          batches = <<[results |-> results, evaluation_type |-> "faithfulness",
                       timestamp |-> timestamp, made_at |-> 1,
                       made_by |-> ByConstructor]>>
    /\ reading = None

NextFilter == Filter

SpecFilter == InitFilter /\ [][NextFilter]_vars

\* batch.results.append(...): the caller adds a result to the batch.
AppendResult ==
    /\ Len(batches[1].results) < MaxResults
    /\ \E o \in 0..Scale :
          batches' = [batches EXCEPT ![1].results =
                         Append(@, EvaluationResult(Len(@) + 1, RelevanceResult(o),
                                                    EmptyDict))]
    /\ UNCHANGED <<clock, timestamp_default, reading>>
    /\ UNCHANGED <<gradeVars, batchVars, poolVars, directVars>>

\* batch.results.pop(): the caller takes the last result out of the batch.
PopResult ==
    /\ batches[1].results # <<>>
    /\ batches' = [batches EXCEPT ![1].results = SubSeq(@, 1, Len(@) - 1)]
    /\ UNCHANGED <<clock, timestamp_default, reading>>
    /\ UNCHANGED <<gradeVars, batchVars, poolVars, directVars>>

\* The caller reads batch.average_score; `over` is the results list at the
\* time of the read.
ReadAverageScore ==
    /\ reading' = [op |-> "average_score",
                   value |-> ReadAverage(batches[1], reading),
                   over |-> batches[1].results]
    /\ UNCHANGED <<clock, timestamp_default, batches>>
    /\ UNCHANGED <<gradeVars, batchVars, poolVars, directVars>>

\* The caller calls evaluate_summary_statistics(batch).
ReadStatistics ==
    /\ reading' = [op |-> "evaluate_summary_statistics",
                   value |-> ScoreStatistics(batches[1]),
                   over |-> batches[1].results]
    /\ UNCHANGED <<clock, timestamp_default, batches>>
    /\ UNCHANGED <<gradeVars, batchVars, poolVars, directVars>>

\* One batch without results was made.
InitStatistics ==
    /\ Start({"ChunkGradedBinary"}, 0) /\ BatchStart(0, 1) /\ PoolStart
    /\ clock = 0
    /\ timestamp_default = 0
    /\ batches = <<[results |-> <<>>, evaluation_type |-> "relevance",
                    timestamp |-> 0, made_at |-> 0, made_by |-> ByConstructor]>>
    /\ reading = None

NextStatistics ==
    \/ AppendResult
    \/ PopResult
    \/ ReadAverageScore
    \/ ReadStatistics

SpecStatistics == InitStatistics /\ [][NextStatistics]_vars

\* The results batch_evaluate returned for one metric over the items
\* 1 .. MaxTableItems: the items whose call did not fail, in the order of
\* the data, each with a lowest or a highest score.  At least one item is
\* left.
SurvivingResults ==
    {r \in UNION {[1..k -> {EvaluationResult(item, RelevanceResult(o), EmptyDict) :
                                item \in 1..MaxTableItems, o \in {0, Scale}}] :
                      k \in 1..MaxTableItems} :
        \A i \in 1..(Len(r) - 1) : r[i].question < r[i + 1].question}

\* The caller puts what batch_evaluate returned for the next metric in a
\* batch.
EvaluateMetric ==
    /\ reading = None
    /\ Len(batches) < Len(MetricNames)
    /\ \E results \in SurvivingResults :
          batches' = Append(batches,
                            BatchEvaluationResults(results,
                                                   MetricNames[Len(batches) + 1],
                                                   timestamp_default, ByConstructor))
    /\ UNCHANGED <<clock, timestamp_default, reading>>
    /\ UNCHANGED <<gradeVars, batchVars, poolVars, directVars>>

\* The dictionary the caller passes to combine_metrics: each batch under its
\* evaluation_type.
ResultsDict == [k \in 1..Len(batches) |-> <<batches[k].evaluation_type, batches[k]>>]

\* The caller calls combine_metrics on the batches made so far.
CombineMetrics ==
    /\ reading = None
    /\ reading' = [op |-> "combine_metrics", value |-> combine_metrics(ResultsDict)]
    /\ UNCHANGED <<clock, timestamp_default, batches>>
    /\ UNCHANGED <<gradeVars, batchVars, poolVars, directVars>>

InitTable ==
    /\ Start({"ChunkGradedBinary"}, 0) /\ BatchStart(0, 1) /\ PoolStart
    /\ UtilStart

NextTable ==
    \/ EvaluateMetric
    \/ CombineMetrics

SpecTable == InitTable /\ [][NextTable]_vars

\* ------------------------------------------------------------- claims
\* Shorthands over the state of the one grade call.

Done == pc \in {"returned", "raised"}

ChunkGradedCall == contract.response_model \in ChunkGradedModels

\* The judge answered (it did not fail) a chunk-graded call.
Answered == Done /\ ChunkGradedCall /\ raw # None

ContextIds == 0..(Len(context) - 1)

IdsOf(chunks) == {chunks[i].id_chunk : i \in 1..Len(chunks)}

EntriesWithId(chunks, id) == {i \in 1..Len(chunks) : chunks[i].id_chunk = id}

SortedByIdChunk(chunks) ==
    \A i \in 1..Len(chunks), j \in 1..Len(chunks) :
        i < j => chunks[i].id_chunk <= chunks[j].id_chunk

FloatEq(a, b) == a.num * b.den = b.num * a.den

\* C1: for a context of n chunks and a judge output whose ids form a subset S
\* of [0,n), S possibly empty, the validator returns exactly n entries, sorted
\* ascending by id_chunk, and every id of [0,n) outside S carries score 0.
C1_ExactlyNSortedMissingZero ==
    (Answered /\ IdsOf(raw.graded_chunks) \subseteq ContextIds) =>
        /\ grade_outcome.kind = "value"
        /\ LET out == grade_outcome.value.graded_chunks
           IN /\ Len(out) = Len(context)
              /\ SortedByIdChunk(out)
              /\ \A id \in ContextIds \ IdsOf(raw.graded_chunks) :
                    /\ EntriesWithId(out, id) # {}
                    /\ \A i \in EntriesWithId(out, id) : ScoreUnits(out[i]) = 0

\* C2: a judge output with at least one id_chunk below 0 or at or above n
\* makes validation fail with a ValueError and no result, and the error names
\* every distinct offending id.
C2_OutOfRangeFailsNamingAll ==
    (Answered /\ ~(IdsOf(raw.graded_chunks) \subseteq ContextIds)) =>
        /\ pc = "raised"
        /\ grade_outcome.kind = "error"
        /\ grade_outcome.value = None
        /\ grade_outcome.error.type = "ValueError"
        /\ grade_outcome.error.ids = IdsOf(raw.graded_chunks) \ ContextIds

\* C2's case: a validation that failed on two distinct offending ids, one of
\* them negative, next to an entry with a valid id.
C2_Witness ==
    /\ Answered
    /\ pc = "raised"
    /\ Cardinality(grade_outcome.error.ids) >= 2
    /\ \E id \in grade_outcome.error.ids : id < 0
    /\ IdsOf(raw.graded_chunks) \cap ContextIds # {}

\* C3: a chunk-graded result that passed validation holds exactly one entry
\* per chunk id of [0,n), also when the judge listed an id more than once.
C3_ExactlyOneEntryPerId ==
    (Answered /\ pc = "returned") =>
        LET out == grade_outcome.value.graded_chunks
        IN /\ IdsOf(out) = ContextIds
           /\ \A id \in ContextIds : Cardinality(EntriesWithId(out, id)) = 1

\* C6: with an empty context and an empty graded sequence from the judge, the
\* validated output of ChunkPrecision is empty and its avg_score is 0.0,
\* computed without a division error.
C6_EmptyAverageIsZero ==
    (/\ probe.op = "avg_score"
     /\ contract.response_model = "ChunkGradedBinary"
     /\ context = <<>>
     /\ raw.graded_chunks = <<>>) =>
        /\ grade_outcome.value.graded_chunks = <<>>
        /\ probe.result.raised = ""
        /\ probe.result.num = 0

\* C7: validating an already validated graded-chunk sequence again, against
\* the same context, returns the same sequence (length, order, ids, scores),
\* adds no entry and records no warning.
C7_RevalidationIsIdentity ==
    probe.op = "revalidate" =>
        /\ probe.result.ok
        /\ probe.result.value = grade_outcome.value.graded_chunks
        /\ probe.result.warnings = <<>>

\* C7's case: a revalidated result that holds an entry added for an omitted
\* id and an id the judge listed twice with different scores.
C7_Witness ==
    /\ probe.op = "revalidate"
    /\ log # <<>>
    /\ \E i, j \in 1..Len(probe.result.value) :
          /\ i < j
          /\ probe.result.value[i].id_chunk = probe.result.value[j].id_chunk
          /\ probe.result.value[i].score # probe.result.value[j].score

\* C8: a grade or agrade call invokes client.create exactly once, and a
\* failure of that invocation reaches the caller as the same error: no retry,
\* no wrapping, no partial result.
C8_OneCallErrorsUnmodified ==
    /\ calls <= 1
    /\ pc # "idle" => calls = 1
    /\ Done => grade_outcome = create_outcome
    /\ pc = "raised" => /\ create_outcome.kind = "error"
                        /\ grade_outcome.error = create_outcome.error
                        /\ grade_outcome.value = None
    /\ pc = "returned" => create_outcome.kind = "value"

\* C8's case: an agrade call whose judge invocation failed validation.
C8_Witness ==
    /\ pc = "raised"
    /\ mode = "agrade"
    /\ calls = 1
    /\ create_outcome.error.type = "ValueError"

\* The score C10 states for a result: the score field, else overall_score,
\* else the average over graded_chunks, else the default 0.
C10_StatedScore(result) ==
    IF "score" \in Attributes(result)
    THEN ReferenceAccuracyResult_score(result)
    ELSE IF "overall_score" \in Attributes(result)
    THEN Float(result.overall_score, Scale)
    ELSE IF "graded_chunks" \in Attributes(result) /\ result.graded_chunks # <<>>
    THEN Float(avg_score(result).num, avg_score(result).den)
    ELSE Float(0, 1)

\* C10: the overall score of an EvaluationResult is the result's score field
\* if present, else its overall_score field, else the average over its graded
\* entries, and the default 0 only when none of these exists.
C10_ScorePrecedence ==
    probe.op = "score" =>
        FloatEq(probe.result.value, C10_StatedScore(grade_outcome.value))

\* The judge answered a call of the Faithfulness contract.
FaithAnswered ==
    Done /\ contract.response_model = "FaithfulnessResult" /\ raw # None

NoSupport(st) == st.supporting_chunk_ids.is_none \/ st.supporting_chunk_ids.ids = <<>>

StatementsOf(output) == {output.statements[i] : i \in 1..Len(output.statements)}

\* The ids outside [0,n) in the supporting lists of a judge output.
OffendingIds(output) ==
    UNION {{st.supporting_chunk_ids.ids[i] : i \in 1..Len(st.supporting_chunk_ids.ids)}
              : st \in StatementsOf(output)} \ ContextIds

\* C4: a statement with is_supported true and supporting_chunk_ids absent or
\* empty makes the validation of the whole result fail; statements with
\* is_supported false validate with supporting_chunk_ids absent or empty.
C4_SupportedNeedsSupport ==
    FaithAnswered =>
        /\ (\E st \in StatementsOf(raw) : st.is_supported /\ NoSupport(st)) =>
              /\ pc = "raised"
              /\ grade_outcome.error.type = "ValidationError"
        /\ (\A st \in StatementsOf(raw) : ~st.is_supported /\ NoSupport(st)) =>
              /\ pc = "returned"
              /\ grade_outcome.value = raw

\* C4's case: a supported statement with an empty (not absent) supporting list
\* was validated against a non-empty context, and the result was rejected.
C4_Witness ==
    /\ FaithAnswered
    /\ context # <<>>
    /\ pc = "raised"
    /\ \E st \in StatementsOf(raw) :
          st.is_supported /\ ~st.supporting_chunk_ids.is_none /\ NoSupport(st)

\* C5 as stated: a supporting id outside [0,n) in any statement, supported or
\* not, makes the validation of the whole result fail with an error that
\* cites each offending id, also when n = 0.
C5_OffendingIdsCited ==
    (FaithAnswered /\ OffendingIds(raw) # {}) =>
        /\ pc = "raised"
        /\ OffendingIds(raw) \subseteq grade_outcome.error.ids

\* C5 as amended: a supporting id outside [0,n) in any statement, supported or
\* not, makes the validation of the whole result fail; for n > 0 the error
\* cites exactly the offending ids, and for n = 0 it fails on the assertion
\* "No context chunks found", which cites no id.
C5_OffendingIdsFail ==
    (FaithAnswered /\ OffendingIds(raw) # {}) =>
        /\ pc = "raised"
        /\ grade_outcome.kind = "error"
        /\ grade_outcome.error.type = "ValidationError"
        /\ context # <<>> => grade_outcome.error.ids = OffendingIds(raw)
        /\ context = <<>> =>
              /\ "No context chunks found" \in grade_outcome.error.reason
              /\ grade_outcome.error.ids = {}

\* C5's case: a statement not marked supported cites a negative id and an id
\* at or above n next to nothing else, against a non-empty context.
C5_Witness ==
    /\ FaithAnswered
    /\ context # <<>>
    /\ pc = "raised"
    /\ \E st \in StatementsOf(raw) :
          /\ ~st.is_supported
          /\ \E i, j \in 1..Len(st.supporting_chunk_ids.ids) :
                /\ st.supporting_chunk_ids.ids[i] < 0
                /\ st.supporting_chunk_ids.ids[j] >= Len(context)
    /\ Cardinality(grade_outcome.error.ids) = 2

\* The items whose evaluation call ended a given way.
Ended(o) == {k \in 0..(data - 1) : task_outcome[k] = o}

Members(seq) == {seq[i] : i \in 1..Len(seq)}

\* C9: a batch in which some evaluation calls raise an exception (transport
\* error, validation failure) still completes without raising: every item
\* whose call returned a result is in the returned list once, every item
\* whose call raised the exception is absent from it and reported once in
\* the error log, and the summary statistics are computed over the returned
\* list, so over no failed item.
C9_FailuresDoNotAbortBatch ==
    /\ b_pc # "raised"
    /\ b_pc = "done" =>
          /\ Ended("result") \subseteq Members(all_results)
          /\ Len(all_results) = Cardinality(Members(all_results))
          /\ Members(all_results) \cap Ended("exception") = {}
          /\ Members(error_log) = Ended("exception")
          /\ Len(error_log) = Cardinality(Ended("exception"))
          /\ inflight = {}
          /\ Ended("pending") = {}
    /\ stats # None =>
          /\ stats.count = Len(all_results)
          /\ stats.over = all_results
          /\ Members(stats.over) \cap Ended("exception") = {}

\* C9's case, Scenario D: of 5 items the third fails and the other four
\* return results; the batch is done with 4 results, 1 logged failure and
\* statistics over 4.
C9_Witness ==
    /\ b_pc = "done"
    /\ data = 5
    /\ batch_size = 2
    /\ Ended("exception") = {2}
    /\ Ended("result") = {0, 1, 3, 4}
    /\ Len(all_results) = 4
    /\ error_log = <<2>>
    /\ stats # None
    /\ stats.count = 4

\* A grade or agrade call was made.
Called == pc # "idle"

\* C11: grade and agrade hand the judge the same system prompt, user
\* template, response schema and context for the same contract, question,
\* answer and context, and return the same result or raise the same failure
\* for the same outcome of the judge call.
C11_GradeAgradeIdentical ==
    /\ Called =>
          /\ request = CreateArguments(contract, question, answer, context)
          /\ request = AwaitedCreateArguments(contract, question, answer, context)
    /\ Done =>
          /\ grade_outcome = GradeOutcome(create_outcome)
          /\ grade_outcome = AgradeOutcome(create_outcome)

\* C11's case: an agrade call without an answer, against a context of two
\* chunks, for which the judge returned a result.
C11_Witness ==
    /\ mode = "agrade"
    /\ pc = "returned"
    /\ answer = None
    /\ Len(context) = 2
    /\ grade_outcome.value = raw

\* C13: the indexed context handed to the judge call has one entry per chunk
\* of the caller's context, in input order, entry i with identifier i and the
\* text of the i-th chunk; an empty context gives an empty indexed context;
\* indexing the same context again gives the same identifiers; and the chunk
\* blocks of the rendered payload show the same identifiers and texts.
C13_IndexedContext ==
    Called =>
        LET indexed == request.context.context.items
            payload == render(request.messages[2].content, request.context)
        IN /\ Len(indexed) = Len(context)
           /\ \A i \in 1..Len(context) :
                 /\ indexed[i].id = i - 1
                 /\ indexed[i].chunk = context[i]
           /\ context = <<>> => indexed = <<>>
           /\ IndexContext(context) = indexed
           /\ [i \in 1..Len(payload.chunks) |-> payload.chunks[i].id]
                 = [i \in 1..Len(context) |-> i - 1]
           /\ [i \in 1..Len(payload.chunks) |-> payload.chunks[i].chunk] = context

\* C13's case: an agrade call against three chunks of which the first two
\* have different texts and the first and third the same text.
C13_Witness ==
    /\ Called
    /\ mode = "agrade"
    /\ Len(context) = 3
    /\ context[1] # context[2]
    /\ context[1] = context[3]

\* C16: the payload rendered for a grade or agrade call has an examples block
\* exactly when the contract's examples is not None, and the block then has
\* one entry per configured example, in order.
C16_ExamplesBlockIffConfigured ==
    Called =>
        LET payload == render(request.messages[2].content, request.context)
        IN /\ payload.examples_block <=> contract.examples # None
           /\ contract.examples # None => payload.examples = contract.examples.items

\* The callers whose agrade call has ended.
Resumed == {c \in 1..MaxCalls : agrade_calls[c].pc \in {"returned", "raised"}}

\* What caller c's own call makes of its judge's response: the response
\* validated against c's own question, answer and context.
OwnOutcome(c) ==
    IF agrade_calls[c].raw = None THEN Raised(JudgeError)
    ELSE model_validate(contract.response_model, agrade_calls[c].raw,
                        GradeInfo(agrade_calls[c].question, agrade_calls[c].answer,
                                  agrade_calls[c].context)).outcome

\* C12: of the agrade calls issued concurrently on one contract, whatever the
\* order in which the judge's responses arrive, each hands the judge its own
\* question, answer and context and returns the result produced for them,
\* validated against its own context size; and the contract's prompt,
\* examples, response_model and chunk_template are what they were before.
C12_ConcurrentCallsIndependent ==
    /\ contract = ContextEvaluation(<<"prompt", "ChunkGradedBinary">>, "ChunkGradedBinary")
    /\ \A c \in 1..MaxCalls :
          agrade_calls[c].pc # "idle" =>
              agrade_calls[c].request =
                  AwaitedCreateArguments(contract, agrade_calls[c].question,
                                         agrade_calls[c].answer, agrade_calls[c].context)
    /\ \A c \in Resumed : agrade_calls[c].outcome = OwnOutcome(c)

\* C12's case: two calls on contexts of different sizes have both returned a
\* result of their own size; the judge omitted a chunk of the call started
\* first, which was repaired against that call's two chunks.
C12_Witness ==
    /\ Len(issued) = 2
    /\ LET first == issued[1]
           second == issued[2]
       IN /\ Len(agrade_calls[first].context) = 2
          /\ Len(agrade_calls[second].context) = 1
          /\ agrade_calls[second].pc = "returned"
          /\ Len(agrade_calls[second].outcome.value.graded_chunks) = 1
          /\ agrade_calls[first].pc = "returned"
          /\ Len(agrade_calls[first].raw.graded_chunks) = 1
          /\ Len(agrade_calls[first].outcome.value.graded_chunks) = 2
          /\ Len(log) = 1

\* The entries of a graded sequence the judge graded true.
GradedTrue(chunks) == {i \in 1..Len(chunks) : chunks[i].score = 1}

\* C14: for a boolean chunk-graded result validated against n > 0 chunks,
\* avg_score is (number of entries the judge graded true) / n: the chunks
\* the judge omitted count 0 and are counted in the denominator.
C14_BinaryAverageOverContext ==
    (/\ probe.op = "avg_score"
     /\ contract.response_model = "ChunkGradedBinary"
     /\ Len(context) > 0) =>
        /\ probe.result.raised = ""
        /\ FloatEq(probe.result,
                   Float(Cardinality(GradedTrue(raw.graded_chunks)), Len(context)))

\* C15: the score of an EvaluationResult that wraps an AnswerRelevance result
\* is the overall_score the judge returned, also when that differs from the
\* average of topical_match, completeness and conciseness; no warning.
C15_RelevanceScoreNotRederived ==
    (probe.op = "score" /\ contract.response_model = "RelevanceScore") =>
        /\ probe.result.value = Float(raw.overall_score, Scale)
        /\ ~probe.result.warned

\* C15's case: the judge returned the highest overall_score next to the
\* lowest topical_match, completeness and conciseness.
C15_Witness ==
    /\ probe.op = "score"
    /\ contract.response_model = "RelevanceScore"
    /\ raw.overall_score = Scale
    /\ raw.topical_match = 0
    /\ raw.completeness = 0
    /\ raw.conciseness = 0
    /\ probe.result.value.num = Scale

\* C17: after batch_evaluate returns, the number of returned results plus the
\* number of failures reported in the error log is the number of items, and
\* every returned element is a successful evaluation result, never None and
\* never an exception object.
C17_NoItemLostSilently ==
    b_pc = "done" =>
        /\ Len(all_results) + Len(error_log) = data
        /\ \A k \in Members(all_results) : task_outcome[k] = "result"

\* The wave an item belongs to, counted from 0.
WaveOf(k) == k \div batch_size

\* The items whose evaluation call has been started.
Started == {k \in 0..(data - 1) : starts[k] > 0}

\* C18: the items are processed in consecutive waves of at most batch_size:
\* never more than batch_size calls are in flight, the calls in flight are
\* calls of one wave, and a call of a wave is started only when every call
\* of every earlier wave has ended, whatever the order in which they ended.
C18_WavesOfAtMostBatchSize ==
    /\ Cardinality(inflight) <= batch_size
    /\ inflight = Started \cap Ended("pending")
    /\ \A k \in inflight, m \in inflight : WaveOf(k) = WaveOf(m)
    /\ \A k \in Started, m \in 0..(data - 1) :
          WaveOf(m) < WaveOf(k) => task_outcome[m] # "pending"
    /\ \A k \in Started, m \in 0..(data - 1) : WaveOf(m) <= WaveOf(k) => m \in Started

\* C18's case: in the second wave of a batch of size three the last call has
\* ended before the first, and the middle one is still in flight.
C18_Witness ==
    /\ b_pc = "gathering"
    /\ batch_size = 3
    /\ b_i = 3
    /\ data = 5
    /\ finished = <<4, 3>>
    /\ inflight = {}

\* The number of waves of n items in batches of b: ceil(n / b).
Waves(n, b) == (n + b - 1) \div b

\* C19: one delay follows every wave that has a successor and precedes that
\* successor; none precedes the first wave or follows the last: when wave k
\* (from 0) is gathered k delays have been made, and when batch_evaluate
\* returns their number is max(0, ceil(n / b) - 1).
C19_DelayBetweenWavesOnly ==
    /\ b_pc = "idle" => sleeps = 0
    /\ b_pc = "gathering" => sleeps = WaveOf(b_i)
    /\ b_pc = "sleeping" =>
          /\ sleeps = WaveOf(b_i) + 1
          /\ inflight = {}
          /\ WaveOf(b_i) + 1 < Waves(data, batch_size)
    /\ b_pc = "done" =>
          sleeps = IF Waves(data, batch_size) - 1 > 0
                   THEN Waves(data, batch_size) - 1 ELSE 0

\* C19's case: four items in batches of two have been evaluated in two full
\* waves with one delay between them and none after the second.
C19_Witness ==
    /\ b_pc = "done"
    /\ data = 4
    /\ batch_size = 2
    /\ sleeps = 1

\* C20: the returned list keeps the input order of the successful items: of
\* two items that both succeeded, the result of the earlier item stands
\* before the result of the later one, whatever the order in which their
\* calls ended and whichever other items failed.
C20_ResultsInInputOrder ==
    /\ \A p \in 1..Len(all_results), q \in 1..Len(all_results) :
          (/\ task_outcome[all_results[p]] = "result"
           /\ task_outcome[all_results[q]] = "result"
           /\ all_results[p] < all_results[q]) => p < q
    /\ b_pc = "done" => Ended("result") \subseteq Members(all_results)

\* C20's case: of the last wave the call of the later item ended first, the
\* item between them failed, and the results stand in input order.
C20_Witness ==
    /\ b_pc = "done"
    /\ data = 3
    /\ batch_size = 3
    /\ finished = <<2, 1, 0>>
    /\ task_outcome[1] = "exception"
    /\ all_results = <<0, 2>>

\* The entries of a sequence with their multiplicities: how often each entry
\* occurs.
Occurrences(chunks, entry) == Cardinality({i \in 1..Len(chunks) : chunks[i] = entry})

\* C21: two judge outputs that hold the same entries in different orders,
\* all ids in range, are validated against the same context to the same
\* sequence, sorted ascending by id_chunk.
C21_OrderOfJudgeIrrelevant ==
    (/\ direct_probe.op = "reordered"
     /\ direct.info \in UsableInfos(MaxDirectCtx)
     /\ IdsOf(direct.data.graded_chunks) \subseteq 0..(Len(direct.info.context.items) - 1)) =>
        /\ direct.outcome.kind = "value"
        /\ direct_probe.outcome = direct.outcome
        /\ SortedByIdChunk(direct_probe.outcome.value.graded_chunks)

\* C22: every entry of a validated ChunkGradedBinary result, the entries made
\* for omitted chunks included, is a ChunkBinaryScore, and the entries made
\* for omitted chunks have score false; a warning is recorded exactly when
\* an entry was made, and the validation does not fail for it.
C22_SynthesizedEntriesBoolean ==
    (Answered /\ pc = "returned" /\ contract.response_model = "ChunkGradedBinary") =>
        LET out == grade_outcome.value.graded_chunks
            made == {i \in 1..Len(out) : out[i].id_chunk \notin IdsOf(raw.graded_chunks)}
        IN /\ \A i \in 1..Len(out) : out[i].cls = "ChunkBinaryScore"
           /\ \A i \in made : out[i].score = 0
           /\ made # {} <=> log # <<>>

\* C28: the validator alters nothing the judge supplied: every entry of the
\* judge's output is in the validated output as often as the judge gave it,
\* with its id_chunk and score, and every other entry of the validated output
\* is one entry for an id the judge omitted; the rest is order.
C28_JudgeEntriesUnaltered ==
    (Answered /\ pc = "returned") =>
        LET out == grade_outcome.value.graded_chunks
            given == raw.graded_chunks
        IN /\ \A i \in 1..Len(given) :
                 Occurrences(out, given[i]) = Occurrences(given, given[i])
           /\ \A i \in 1..Len(out) :
                 Occurrences(given, out[i]) = 0 =>
                     /\ out[i].id_chunk \notin IdsOf(given)
                     /\ Cardinality(EntriesWithId(out, out[i].id_chunk)) = 1

\* C28's case: the judge graded the second of three chunks twice, with
\* different scores, and before the first; the third chunk was added.
C28_Witness ==
    /\ Answered
    /\ pc = "returned"
    /\ Len(context) = 3
    /\ Len(raw.graded_chunks) = 3
    /\ raw.graded_chunks[1].id_chunk = 1
    /\ raw.graded_chunks[2].id_chunk = 1
    /\ raw.graded_chunks[1].score # raw.graded_chunks[2].score
    /\ raw.graded_chunks[3].id_chunk = 0
    /\ Len(grade_outcome.value.graded_chunks) = 4

\* C23: validation of a graded_chunks field fails with a ValueError whenever
\* the validation context is missing, is no dict, lacks the key 'context' or
\* has a 'context' value that is no list, whatever the graded_chunks value,
\* the empty list included.
C23_UnusableContextRejected ==
    (/\ direct # None
     /\ direct.model \in ChunkGradedModels
     /\ direct.info \in UnusableInfos) =>
        /\ direct.outcome.kind = "error"
        /\ direct.outcome.error.type = "ValueError"

\* The statements of a result that are marked supported.
Supported(result) ==
    {i \in 1..Len(result.statements) : result.statements[i].is_supported}

\* C27: overall_faithfulness_score is (number of statements with
\* is_supported true) / (number of statements), lies in [0,1], and is 0.0,
\* without a division error, for a result without statements.
C27_FaithfulnessScoreIsFraction ==
    direct_probe.op = "overall_faithfulness_score" =>
        LET result == direct.outcome.value
            value == direct_probe.result
        IN /\ value.den > 0
           /\ 0 <= value.num
           /\ value.num <= value.den
           /\ result.statements # <<>> =>
                 FloatEq(value, Float(Cardinality(Supported(result)),
                                      Len(result.statements)))
           /\ result.statements = <<>> => value.num = 0

\* C27's case: of three statements, two are supported and the third cites a
\* chunk without being supported; the score is 2/3.
C27_Witness ==
    /\ direct_probe.op = "overall_faithfulness_score"
    /\ Len(direct.outcome.value.statements) = 3
    /\ Cardinality(Supported(direct.outcome.value)) = 2
    /\ \E i \in 1..3 :
          /\ ~direct.outcome.value.statements[i].is_supported
          /\ ~direct.outcome.value.statements[i].supporting_chunk_ids.is_none
    /\ direct_probe.result.num * 3 = direct_probe.result.den * 2

\* C30: when every evaluation call ends, batch_evaluate returns, and it has
\* then started the evaluation function once for every item of the data; no
\* item is ever started a second time.
C30_BatchReturnsEveryItemOnce ==
    /\ <>(b_pc = "done" /\ \A k \in 0..(data - 1) : starts[k] = 1)
    /\ [](\A k \in 0..(data - 1) : starts[k] <= 1)

\* C30's case: five items in batches of two have all been started once, the
\* last in a wave of its own, and batch_evaluate has returned.
C30_Witness ==
    /\ b_pc = "done"
    /\ data = 5
    /\ batch_size = 2
    /\ \A k \in 0..4 : starts[k] = 1
    /\ sleeps = 2

\* C24: a batch made without an explicit timestamp carries the time at which
\* it was made, so that of two such batches made at different times the later
\* one has the strictly later timestamp; a batch made by filter_results has
\* the timestamp of the batch it was filtered from.
C24_TimestampIsCreationTime ==
    /\ \A i \in 1..Len(batches) :
          batches[i].made_by.op = "BatchEvaluationResults" =>
              batches[i].timestamp = batches[i].made_at
    /\ \A i \in 1..Len(batches), j \in 1..Len(batches) :
          (/\ batches[i].made_by.op = "BatchEvaluationResults"
           /\ batches[j].made_by.op = "BatchEvaluationResults"
           /\ batches[i].made_at < batches[j].made_at) =>
              batches[i].timestamp < batches[j].timestamp
    /\ \A i \in 1..Len(batches) :
          batches[i].made_by.op = "filter_results" =>
              batches[i].timestamp = batches[batches[i].made_by.source].timestamp

\* a >= b for two floats.
FloatAtLeast(a, b) == a.num * b.den >= b.num * a.den

\* The results of a list that C26 says a filter_results call keeps.
Matching(results, arguments) ==
    LET matches(r) ==
            /\ (arguments.min_score.is_none
                    \/ FloatAtLeast(ResultScore(r), arguments.min_score.value))
            /\ (arguments.max_score.is_none
                    \/ FloatAtLeast(arguments.max_score.value, ResultScore(r)))
            /\ (arguments.metadata_filters # None =>
                    \A item \in arguments.metadata_filters.items : item \in r.metadata)
    IN SelectSeq(results, matches)

\* C26: the batch filter_results returns holds exactly the results of the
\* input whose score is within the given thresholds, both inclusive, and whose
\* metadata has every key of metadata_filters with its value, in the order of
\* the input; its evaluation_type and timestamp are the input's; the input is
\* as it was before the call; the same filter applied to the output keeps all
\* of it.
C26_FilterKeepsExactlyTheMatching ==
    \A k \in 1..Len(batches) :
        batches[k].made_by.op = "filter_results" =>
            LET out == batches[k]
                input == out.made_by.input
                arguments == out.made_by.arguments
            IN /\ out.results = Matching(input.results, arguments)
               /\ out.evaluation_type = input.evaluation_type
               /\ out.timestamp = input.timestamp
               /\ batches[out.made_by.source] = input
               /\ filter_results(out, arguments.min_score, arguments.max_score,
                                 arguments.metadata_filters) = out.results

\* C26's case: of two results one was kept, with a score that is exactly
\* min_score and the metadata asked for, from a batch whose timestamp is not
\* the default one.
C26_Witness ==
    /\ Len(batches) = 2
    /\ batches[2].made_by.op = "filter_results"
    /\ batches[2].made_by.arguments.min_score = SomeFloat(1)
    /\ batches[2].made_by.arguments.metadata_filters = Dict({<<"category", "science">>})
    /\ Len(batches[1].results) = 2
    /\ Len(batches[2].results) = 1
    /\ batches[2].results[1].question = 2
    /\ ResultScore(batches[2].results[1]) = Float(1, Scale)
    /\ ResultScore(batches[1].results[1]) = Float(Scale, Scale)
    /\ batches[2].timestamp = 1
    /\ timestamp_default = 0

\* The sum of the scores of a list of results, in units of 1/Scale.
RECURSIVE TotalUnits(_)
TotalUnits(results) ==
    IF results = <<>> THEN 0
    ELSE ResultScore(Head(results)).num + TotalUnits(Tail(results))

\* C25: what a read of average_score gives is the sum of the scores of the
\* results the batch has at that time over their number, and 0.0 when it has
\* none; what evaluate_summary_statistics gives has the number of those
\* results as count, and for a batch without results count 0 and mean,
\* median, min, max and std 0.
C25_StatisticsFromCurrentResults ==
    /\ (reading # None /\ reading.op = "average_score") =>
          IF reading.over = <<>>
          THEN FloatEq(reading.value, Float(0, 1))
          ELSE FloatEq(reading.value,
                       Float(TotalUnits(reading.over), Scale * Len(reading.over)))
    /\ (reading # None /\ reading.op = "evaluate_summary_statistics") =>
          /\ reading.value.count = Len(reading.over)
          /\ reading.over = <<>> =>
                \A statistic \in {reading.value.mean, reading.value.median,
                                   reading.value.min, reading.value.max,
                                   reading.value.std_squared} :
                    ~statistic.nan /\ statistic.value.num = 0

\* C25's case: average_score was read as 1/2 from a batch of a lowest and a
\* highest score, and the batch has lost a result since.
C25_Witness ==
    /\ reading # None
    /\ reading.op = "average_score"
    /\ Len(reading.over) = 2
    /\ ResultScore(reading.over[1]) = Float(0, Scale)
    /\ ResultScore(reading.over[2]) = Float(Scale, Scale)
    /\ FloatEq(reading.value, Float(1, 2))
    /\ Len(batches[1].results) = 1

\* C29: every row of the table of combine_metrics holds, in the column of
\* each metric, the score that metric's batch gave to the item whose question
\* is in the row, and no score when that batch has no result for the item.
C29_RowsHoldOneItem ==
    (reading # None /\ reading.op = "combine_metrics") =>
        \A i \in 1..Len(reading.value), k \in 1..Len(batches) :
            LET row == reading.value[i]
                name == batches[k].evaluation_type
                given == {r \in Members(batches[k].results) :
                             r.question = row.question}
            IN /\ name \in DOMAIN row.scores
               /\ IF given = {}
                  THEN row.scores[name].nan
                  ELSE \E r \in given :
                          /\ ~row.scores[name].nan
                          /\ row.scores[name].value = ResultScore(r)

====
